---- MODULE Spec2Model ----
(***************************************************************************)
(* A model of the EDA rule engine: the rule store, the SQL generator, the  *)
(* database answering the generated queries, RuleEngine.execute_rule and   *)
(* execute_batch_rules (a ThreadPoolExecutor of execute_rule calls), and   *)
(* the Reporter's history file.                                            *)
(*                                                                         *)
(* Fields of the result that no property reads (start_time, end_time,      *)
(* execution_time, failed_samples) are left out.  pass_rate is a Python    *)
(* float in the code; here it is the exact ratio num/den in lowest terms.  *)
(***************************************************************************)
EXTENDS Integers, Sequences, FiniteSets, TLC

----------------------------------------------------------------------------
(* Bounds of the model *)

MaxRules == 2

MaxRows == 2

MaxVal == 3

MaxWorkers == 2

MaxCalls == 1

MaxKeys == 2

MaxGroupRows == 2

MaxCompareRows == 1

MaxHistory == 2

MaxSeries == 14

(* Program constants *)

RowLimit == 1000

HistoryCap == 1000

DefaultMaxWorkers == 4

DefaultSummaryDays == 7

DefaultTrendDays == 30

TrendWindow == 7

(* SQL NULL in a column or an aggregate, Python None in a timestamp *)
Null == -1

(* Python None in result.error *)
None == "None"

----------------------------------------------------------------------------
(* Exact ratios, for pass_rate *)

Abs(x) == IF x < 0 THEN -x ELSE x

RECURSIVE Gcd(_, _)
Gcd(a, b) == IF b = 0 THEN a ELSE Gcd(b, a % b)

(* n/d for d > 0, in lowest terms *)
Ratio(n, d) ==
    LET g == Gcd(Abs(n), d)
    IN  [num |-> n \div g, den |-> d \div g]

Zero == [num |-> 0, den |-> 1]

(* x >= k for a ratio x and an integer k *)
RatioGe(x, k) == x.num >= k * x.den

RatioAdd(x, y) == Ratio(x.num * y.den + y.num * x.den, x.den * y.den)

(* x * n / d for d > 0 *)
RatioScale(x, n, d) == Ratio(x.num * n, x.den * d)

RatioLess(x, y) == x.num * y.den < y.num * x.den

(* sum(xs), added up by halves *)
RECURSIVE RatioSum(_)
RatioSum(xs) ==
    IF xs = << >> THEN Zero
    ELSE IF Len(xs) = 1 THEN xs[1]
    ELSE LET half == Len(xs) \div 2
         IN  RatioAdd(RatioSum(SubSeq(xs, 1, half)),
                      RatioSum(SubSeq(xs, half + 1, Len(xs))))

Min(a, b) == IF a <= b THEN a ELSE b

(* The members of a set of numbers in ascending order *)
RECURSIVE Ascending(_)
Ascending(ids) ==
    IF ids = {} THEN << >>
    ELSE LET lo == CHOOSE i \in ids : \A j \in ids : i <= j
         IN  <<lo>> \o Ascending(ids \ {lo})

----------------------------------------------------------------------------
(* The rule store: rules/manager.py *)

RuleIds == 1 .. MaxRules

(* Rule ids and rule names are both strings in the code, and get_rule      *)
(* looks a key up among the ids first and the names second; here ids are   *)
(* 1..MaxRules and the name of rule id is NameBase + id.                   *)
NameBase == 100

RuleName(id) == NameBase + id

DefaultThreshold == [num |-> 1, den |-> 20]

(* The kinds of rule the store holds: a rule type with its parameters.     *)
(* create_rule accepts 'boolean_combination', for which the generator has  *)
(* no branch.                                                              *)
RuleKinds ==
    << [rule_type |-> "value_range",
        parameters |-> [min_value |-> 1, max_value |-> 2]],
       [rule_type |-> "statistical_comparison",
        parameters |-> [operation |-> "sum", compare_table |-> "t2",
                        compare_column |-> "v"]],
       [rule_type |-> "data_continuity",
        parameters |-> [check_type |-> "null_values"]],
       [rule_type |-> "data_continuity",
        parameters |-> [check_type |-> "sequence_gaps"]],
       [rule_type |-> "boolean_combination",
        parameters |-> [operator |-> "and"]] >>

MkRule(id, kind) ==
    [id |-> id, name |-> RuleName(id), rule_type |-> kind.rule_type,
     config |-> [table |-> "t1", column |-> "v", parameters |-> kind.parameters],
     status |-> "active", tags |-> {}, last_run |-> Null]

KindAt(k) == RuleKinds[((k - 1) % Len(RuleKinds)) + 1]

(* Store contents: rule 1 is of any kind, the others follow in the cycle *)
RuleStores ==
    {[id \in RuleIds |-> MkRule(id, KindAt(k + id - 1))] : k \in 1 .. Len(RuleKinds)}

(* RuleManager.get_rule: by id first, then by name; Null when not found *)
get_rule(store, key) ==
    IF key \in DOMAIN store THEN key
    ELSE IF \E id \in DOMAIN store : store[id].name = key
         THEN CHOOSE id \in DOMAIN store : store[id].name = key
         ELSE Null

----------------------------------------------------------------------------
(* The SQL generator: parsers/sql_generator.py.  A query is held as the    *)
(* record of what its text selects.                                        *)

NoQuery == [op |-> "none"]

value_range_sql(rule) ==
    LET p == rule.config.parameters
    IN  IF ~ ({"min_value", "max_value"} \subseteq DOMAIN p)
        THEN [error |-> "KeyError", sql |-> NoQuery, count |-> NoQuery]
        ELSE [error |-> None,
              sql |-> [op |-> "out_of_range", table |-> rule.config.table,
                       min |-> p.min_value, max |-> p.max_value,
                       limit |-> RowLimit],
              count |-> [op |-> "count_not_null", table |-> rule.config.table]]

data_continuity_sql(rule) ==
    LET p == rule.config.parameters
        gaps == "check_type" \in DOMAIN p /\ p.check_type = "sequence_gaps"
    IN  [error |-> None,
         sql |-> [op |-> IF gaps THEN "sequence_gaps" ELSE "is_null",
                  table |-> rule.config.table, limit |-> RowLimit],
         count |-> [op |-> "count_all", table |-> rule.config.table]]

statistical_comparison_sql(rule) ==
    LET p == rule.config.parameters
    IN  IF ~ ({"operation", "compare_table", "compare_column"} \subseteq DOMAIN p)
        THEN [error |-> "KeyError", sql |-> NoQuery, count |-> NoQuery]
        ELSE [error |-> None,
              sql |-> [op |-> "stat_compare", operation |-> p.operation,
                       table |-> rule.config.table,
                       compare_table |-> p.compare_table,
                       threshold |-> IF "threshold" \in DOMAIN p
                                     THEN p.threshold ELSE DefaultThreshold],
              count |-> [op |-> "select_one"]]

(* SQLGenerator(): the engine builds its generator with no database type,   *)
(* engine.py 65, and the generator's default is 'sqlite'                   *)
database_type == "sqlite"

(* The patterns of the value_template rules: one of the values 0 and 1, and *)
(* one of an e-mail address                                                 *)
DigitPattern == "^[01]$"

EmailPattern == "^.+@.+$"

(* 'email' in pattern.lower() or '@' in pattern *)
NamesEmail(pattern) == pattern = EmailPattern

value_template_sql(rule) ==
    LET p == rule.config.parameters
    IN  IF "pattern" \notin DOMAIN p
        THEN [error |-> "KeyError", sql |-> NoQuery, count |-> NoQuery]
        ELSE [error |-> None,
              sql |-> [op |-> "not_match", table |-> rule.config.table,
                       predicate |->
                           IF database_type = "postgresql" THEN "!~"
                           ELSE IF database_type = "mysql" THEN "NOT REGEXP"
                           ELSE IF NamesEmail(p.pattern) THEN "NOT LIKE"
                           ELSE "NOT GLOB",
                       pattern |-> p.pattern, limit |-> RowLimit],
              count |-> [op |-> "count_not_null", table |-> rule.config.table]]

DefaultOperation == "sum"

cross_table_comparison_sql(rule) ==
    LET p == rule.config.parameters
    IN  IF ~ ({"compare_table", "compare_column"} \subseteq DOMAIN p)
        THEN [error |-> "KeyError", sql |-> NoQuery, count |-> NoQuery]
        ELSE [error |-> None,
              sql |-> [op |-> "cross_compare", table |-> rule.config.table,
                       compare_table |-> p.compare_table,
                       operation |-> IF "operation" \in DOMAIN p
                                     THEN p.operation ELSE DefaultOperation,
                       limit |-> RowLimit],
              count |-> [op |-> "count_distinct_key", table |-> rule.config.table]]

(* SQLGenerator.generate_validation_sql: (validation query, count query),  *)
(* or the error it raises                                                  *)
generate_validation_sql(rule) ==
    CASE rule.rule_type = "value_range" -> value_range_sql(rule)
      [] rule.rule_type = "value_template" -> value_template_sql(rule)
      [] rule.rule_type = "data_continuity" -> data_continuity_sql(rule)
      [] rule.rule_type = "statistical_comparison" ->
            statistical_comparison_sql(rule)
      [] rule.rule_type = "cross_table_comparison" ->
            cross_table_comparison_sql(rule)
      [] OTHER -> [error |-> "Unsupported rule type", sql |-> NoQuery,
                   count |-> NoQuery]

----------------------------------------------------------------------------
(* The database: a table is the sequence of its rows' values of column v,  *)
(* each 0..MaxVal or Null.  The answers are those of the SQL text.         *)

Values == (0 .. MaxVal) \cup {Null}

RECURSIVE TablesOfLen(_)
TablesOfLen(n) ==
    IF n = 0 THEN {<< >>}
    ELSE {Append(t, v) : t \in TablesOfLen(n - 1), v \in Values}

Tables == UNION {TablesOfLen(n) : n \in 0 .. MaxRows}

NotNull(v) == v # Null

Limit(rows, n) == SubSeq(rows, 1, Min(n, Len(rows)))

RECURSIVE Insert(_, _)
Insert(sorted, v) ==
    IF sorted = << >> \/ v <= Head(sorted) THEN <<v>> \o sorted
    ELSE <<Head(sorted)>> \o Insert(Tail(sorted), v)

(* ORDER BY v, ascending *)
RECURSIVE OrderBy(_)
OrderBy(rows) ==
    IF rows = << >> THEN << >> ELSE Insert(OrderBy(Tail(rows)), Head(rows))

(* SequenceGaps with a difference of 1 taken for a gap *)
SequenceSteps(rows) ==
    LET s == OrderBy(SelectSeq(rows, NotNull))
        gap == {i \in 2 .. Len(s) : s[i] - s[i - 1] >= 1}
        RECURSIVE Pick(_)
        Pick(i) == IF i > Len(s) THEN << >>
                   ELSE (IF i \in gap THEN <<s[i]>> ELSE << >>) \o Pick(i + 1)
    IN  Pick(1)

(* The rows of sequence_check whose LAG is not null and lies more than 1 below *)
SequenceGaps(rows) ==
    LET s == OrderBy(SelectSeq(rows, NotNull))
        gap == {i \in 2 .. Len(s) : s[i] - s[i - 1] > 1}
        RECURSIVE Pick(_)
        Pick(i) == IF i > Len(s) THEN << >>
                   ELSE (IF i \in gap THEN <<s[i]>> ELSE << >>) \o Pick(i + 1)
    IN  Pick(1)

(* The sum of the numbers of rows, added up by halves *)
RECURSIVE Sum(_)
Sum(rows) ==
    IF rows = << >> THEN 0
    ELSE IF Len(rows) = 1 THEN rows[1]
    ELSE LET half == Len(rows) \div 2
         IN  Sum(SubSeq(rows, 1, half)) + Sum(SubSeq(rows, half + 1, Len(rows)))

(* SUM, MIN and MAX of no rows are NULL; COUNT of no rows is 0 *)
Aggregate(operation, rows) ==
    LET vals == SelectSeq(rows, NotNull)
        s == OrderBy(vals)
    IN  CASE operation = "count" -> Len(vals)
          [] vals = << >> -> Null
          [] operation = "sum" -> Sum(vals)
          [] operation = "min" -> s[1]
          [] OTHER -> s[Len(s)]

(* The CASE of the statistical comparison: a comparison with NULL is not   *)
(* true, and the quotient of two integer aggregates is the integer one     *)
StatPassed(a, b, threshold) ==
    IF a = Null \/ b = Null THEN 0
    ELSE IF b = 0 THEN (IF a = 0 THEN 1 ELSE 0)
    ELSE IF (Abs(a - b) \div b) * threshold.den <= threshold.num THEN 1 ELSE 0

(* value_range's WHERE with the bounds taken as exclusive *)
OutOfRangeOrOnBound(v, lo, hi) == v # Null /\ (v <= lo \/ v >= hi)

(* value_range's WHERE: v IS NOT NULL AND (v < lo OR v > hi) *)
OutOfRange(v, lo, hi) == v # Null /\ (v < lo \/ v > hi)

(* The keyed tables of cross_table_comparison: a row is its join key id    *)
(* and its value of column v.  The groups of GROUP BY id over the rows     *)
(* WHERE v IS NOT NULL, and the aggregate of a group.                      *)
Groups(rows) == {rows[i].id : i \in {j \in DOMAIN rows : rows[j].v # Null}}

GroupAgg(operation, rows, k) ==
    LET InGroup(row) == row.id = k
        grp == SelectSeq(rows, InGroup)
    IN  Aggregate(operation, [i \in DOMAIN grp |-> grp[i].v])

(* COALESCE leaving its argument as it is *)
CoalesceKeepsNull(x, d) == x

(* COALESCE(x, d) *)
Coalesce(x, d) == IF x = Null THEN d ELSE x

(* The keys of t1 LEFT JOIN t2 taken as those of an inner join *)
InnerJoin(keys1, keys2) == keys1 \cap keys2

(* The keys of t1 LEFT JOIN t2: every group of t1 *)
LeftJoin(keys1, keys2) == keys1

(* The rows of the cross-table comparison, by ascending join key *)
CrossCompare(operation, rows1, rows2) ==
    LET keys == LeftJoin(Groups(rows1), Groups(rows2))
        Agg2(k) == IF k \in Groups(rows2)
                   THEN GroupAgg(operation, rows2, k) ELSE Null
        differ == {k \in keys :
                     GroupAgg(operation, rows1, k) # Coalesce(Agg2(k), 0)}
        order == Ascending(differ)
    IN  [i \in DOMAIN order |->
            LET k == order[i]
                a == GroupAgg(operation, rows1, k)
            IN  [join_id |-> k, agg_value1 |-> a, agg_value2 |-> Agg2(k),
                 difference |-> Abs(a - Coalesce(Agg2(k), 0))]]

(* The text of value v matches the regular expression: the values are      *)
(* numbers, and no number is an e-mail address                             *)
Matches(pattern, v) == pattern = DigitPattern /\ v \in {0, 1}

(* The WHERE of the value_template validation query on value v.  The LIKE  *)
(* and GLOB conditions of the sqlite branch look for an '@' and a '.', and *)
(* hold of every number.                                                   *)
NotMatch(predicate, pattern, v) ==
    /\ v # Null
    /\ IF predicate \in {"!~", "NOT REGEXP"} THEN ~ Matches(pattern, v) ELSE TRUE

(* DatabaseManager.execute_query on an open connection: the rows of query q *)
execute_query(data, q) ==
    CASE q.op = "count_not_null" ->
            << [total_count |-> Len(SelectSeq(data[q.table], NotNull))] >>
      [] q.op = "count_all" -> << [total_count |-> Len(data[q.table])] >>
      [] q.op = "select_one" -> << [total_count |-> 1] >>
      [] q.op = "out_of_range" ->
            LET Out(v) == OutOfRange(v, q.min, q.max)
            IN  Limit(SelectSeq(data[q.table], Out), q.limit)
      [] q.op = "not_match" ->
            LET Out(v) == NotMatch(q.predicate, q.pattern, v)
            IN  Limit(SelectSeq(data[q.table], Out), q.limit)
      [] q.op = "is_null" ->
            LET IsNull(v) == v = Null
            IN  Limit(SelectSeq(data[q.table], IsNull), q.limit)
      [] q.op = "sequence_gaps" -> Limit(SequenceGaps(data[q.table]), q.limit)
      [] q.op = "stat_compare" ->
            LET a == Aggregate(q.operation, data[q.table])
                b == Aggregate(q.operation, data[q.compare_table])
            IN  << [value1 |-> a, value2 |-> b,
                    passed |-> StatPassed(a, b, q.threshold)] >>
      [] q.op = "count_distinct_key" ->
            << [total_count |-> Cardinality(Groups(data[q.table]))] >>
      [] q.op = "cross_compare" ->
            Limit(CrossCompare(q.operation, data[q.table], data[q.compare_table]),
                  q.limit)
      [] OTHER -> << >>

----------------------------------------------------------------------------
(* The state *)

VARIABLES
    rules,          \* RuleManager.rules: rule id -> Rule
    connections,    \* DatabaseManager.connections: the configured names, in order
    db,             \* the database: table name -> rows
    results_file,   \* the list .eda-results.json loads as
    clock,          \* datetime.now()
    ex,             \* per rule id, the execute_rule call on it: its place and locals
    main,           \* the caller: execute_rule's or execute_batch_rules' frame
    returned,       \* what the last call returned or raised
    calls           \* calls made so far

vars == <<rules, connections, db, results_file, clock, ex, main, returned, calls>>

Databases == {None, "main", "other"}

(* RuleExecutionResult.__init__ *)
NewResult ==
    [total_records |-> 0, passed_records |-> 0, failed_records |-> 0,
     pass_rate |-> Zero, passed |-> FALSE, error |-> None]

IdleExec ==
    [pc |-> "idle", database |-> None, result |-> NewResult, history |-> << >>]

IdleMain ==
    [pc |-> "idle", rules |-> << >>, queue |-> << >>, collected |-> {},
     results |-> << >>, database |-> None, max_workers |-> 0]

NothingReturned == [kind |-> "none", error |-> None, results |-> << >>]

(* RuleExecutionResult.to_dict *)
to_dict(rule, result) ==
    [rule_name |-> rule.name, rule_id |-> rule.id, passed |-> result.passed,
     total_records |-> result.total_records,
     passed_records |-> result.passed_records,
     failed_records |-> result.failed_records,
     pass_rate |-> result.pass_rate, error |-> result.error]

(* A history entry: the result's dict with the timestamp of its append *)
Stamped(d, ts) ==
    [rule_name |-> d.rule_name, rule_id |-> d.rule_id, passed |-> d.passed,
     total_records |-> d.total_records, passed_records |-> d.passed_records,
     failed_records |-> d.failed_records, pass_rate |-> d.pass_rate,
     error |-> d.error, timestamp |-> ts]

(* The entries the history file holds at the start: n earlier executions,  *)
(* appended at times 1..n                                                  *)
OldEntry(i) ==
    Stamped([rule_name |-> RuleName(1), rule_id |-> 1, passed |-> TRUE,
             total_records |-> 1, passed_records |-> 1, failed_records |-> 0,
             pass_rate |-> Ratio(100, 1), error |-> None], i)

OldHistory(n) == [i \in 1 .. n |-> OldEntry(i)]

----------------------------------------------------------------------------
(* RuleExecutionResult and the reading of the query rows, engine.py *)

(* finish with the ratio left as a fraction of 1 *)
finish_no_percent(result) ==
    IF result.total_records > 0
    THEN LET rate == Ratio(result.passed_records, result.total_records)
         IN  [result EXCEPT !.pass_rate = rate, !.passed = RatioGe(rate, 100)]
    ELSE [result EXCEPT !.pass_rate = Zero, !.passed = FALSE]

(* finish counting a result of no records as passed *)
finish_empty_passes(result) ==
    IF result.total_records > 0
    THEN LET rate == Ratio(result.passed_records * 100, result.total_records)
         IN  [result EXCEPT !.pass_rate = rate, !.passed = RatioGe(rate, 100)]
    ELSE [result EXCEPT !.pass_rate = Ratio(100, 1), !.passed = TRUE]

(* RuleExecutionResult.finish, engine.py 32-42 *)
finish(result) ==
    IF result.total_records > 0
    THEN LET rate == Ratio(result.passed_records * 100, result.total_records)
         IN  [result EXCEPT !.pass_rate = rate, !.passed = RatioGe(rate, 100)]
    ELSE [result EXCEPT !.pass_rate = Zero, !.passed = FALSE]

(* _process_value_range_result, _process_value_template_result,            *)
(* _process_data_continuity_result, _process_cross_table_comparison_result *)
process_rows_result(query_result, result) ==
    IF query_result # << >>
    THEN [result EXCEPT
            !.failed_records = Len(query_result),
            !.passed_records = result.total_records - Len(query_result)]
    ELSE result

(* _process_statistical_comparison_result *)
process_statistical_comparison_result(query_result, result) ==
    IF query_result # << >> /\ "passed" \in DOMAIN query_result[1]
    THEN IF query_result[1].passed # 0
         THEN [result EXCEPT !.passed_records = result.total_records,
                             !.failed_records = 0]
         ELSE [result EXCEPT !.passed_records = 0,
                             !.failed_records = result.total_records]
    ELSE result

RowCountingTypes ==
    {"value_range", "value_template", "data_continuity", "cross_table_comparison"}

(* _process_rule_result: the result, or the error raised *)
process_rule_result(rule, query_result, result) ==
    CASE rule.rule_type \in RowCountingTypes ->
            [error |-> None, result |-> process_rows_result(query_result, result)]
      [] rule.rule_type = "statistical_comparison" ->
            [error |-> None,
             result |-> process_statistical_comparison_result(query_result, result)]
      [] OTHER -> [error |-> "Unsupported rule type", result |-> result]

(* execute_rule, engine.py 69-88: the lookups, the new result and the      *)
(* generation of the SQL, which reads nothing shared but the rule          *)
enter_execute_rule(key, database) ==
    LET id == get_rule(rules, key)
        name == IF database # None THEN database
                ELSE IF connections # << >> THEN connections[1] ELSE None
    IN  IF id = Null THEN [raised |-> "Rule not found", id |-> Null, exec |-> IdleExec]
        ELSE IF name = None
        THEN [raised |-> "No database connections configured", id |-> id,
              exec |-> IdleExec]
        ELSE LET gen == generate_validation_sql(rules[id])
             IN  [raised |-> None, id |-> id,
                  exec |-> [pc |-> IF gen.error = None THEN "count" ELSE "finish",
                            database |-> name,
                            result |-> [NewResult EXCEPT !.error = gen.error],
                            history |-> << >>]]

(* Caught with the exception raised again instead of recorded *)
CaughtAndRaised(e, message) ==
    [e EXCEPT !.pc = "raised", !.result.error = message]

(* The except clause of execute_rule: the error goes into the result *)
Caught(e, message) ==
    [e EXCEPT !.pc = "finish", !.result.error = message]

----------------------------------------------------------------------------
(* RuleEngine.execute_rule, engine.py 67-113, called directly *)

UnknownKey == 0

Keys == RuleIds \cup {RuleName(id) : id \in RuleIds} \cup {UnknownKey}

Raised(message) == [kind |-> "raise", error |-> message, results |-> << >>]

ClearedExec == [id \in RuleIds |-> IdleExec]

CallExecuteRule(key, database) ==
    /\ main.pc = "idle"
    /\ calls < MaxCalls
    /\ calls' = calls + 1
    /\ LET s == enter_execute_rule(key, database)
       IN  IF s.raised # None
           THEN /\ returned' = Raised(s.raised)
                /\ ex' = ClearedExec
                /\ main' = IdleMain
           ELSE /\ returned' = NothingReturned
                /\ ex' = [ClearedExec EXCEPT ![s.id] = s.exec]
                /\ main' = [IdleMain EXCEPT !.pc = "single", !.rules = <<s.id>>,
                                            !.database = database]
    /\ UNCHANGED <<rules, connections, db, results_file, clock>>

(* engine.py 90-91: the count query.  get_engine raises for a name that is *)
(* not configured.                                                         *)
CountQuery(r) ==
    /\ ex[r].pc = "count"
    /\ LET e == ex[r]
           known == \E i \in DOMAIN connections : connections[i] = e.database
           count_result ==
               execute_query(db, generate_validation_sql(rules[r]).count)
       IN  ex' = [ex EXCEPT ![r] =
                IF ~ known THEN Caught(e, "Connection not found")
                ELSE [e EXCEPT !.pc = "validate",
                               !.result.total_records =
                                   IF count_result # << >>
                                   THEN count_result[1].total_count ELSE 0]]
    /\ UNCHANGED <<rules, connections, db, results_file, clock, main, returned, calls>>

(* engine.py 94-97: the validation query and the reading of its rows *)
ValidationQuery(r) ==
    /\ ex[r].pc = "validate"
    /\ LET e == ex[r]
           validation_result ==
               execute_query(db, generate_validation_sql(rules[r]).sql)
           p == process_rule_result(rules[r], validation_result, e.result)
       IN  ex' = [ex EXCEPT ![r] =
                IF p.error # None THEN Caught([e EXCEPT !.result = p.result], p.error)
                ELSE [e EXCEPT !.pc = "stamp", !.result = p.result]]
    /\ UNCHANGED <<rules, connections, db, results_file, clock, main, returned, calls>>

(* database/manager.py 153-155: the query fails and execute_query raises *)
QueryRaises(r) ==
    /\ ex[r].pc \in {"count", "validate"}
    /\ \E i \in DOMAIN connections : connections[i] = ex[r].database
    /\ ex' = [ex EXCEPT ![r] = Caught(ex[r], "SQLAlchemyError")]
    /\ UNCHANGED <<rules, connections, db, results_file, clock, main, returned, calls>>

(* The query executor's call does not return *)
QueryHangs(r) ==
    /\ ex[r].pc \in {"count", "validate"}
    /\ \E i \in DOMAIN connections : connections[i] = ex[r].database
    /\ ex' = [ex EXCEPT ![r].pc = "hung"]
    /\ UNCHANGED <<rules, connections, db, results_file, clock, main, returned, calls>>

(* rules/manager.py 184-189, called at engine.py 100: last_run is set, and *)
(* the rules file is saved or its write raises                             *)
UpdateLastRun(r, saved) ==
    /\ ex[r].pc = "stamp"
    /\ rules' = [rules EXCEPT ![r].last_run = clock]
    /\ ex' = [ex EXCEPT ![r] =
                IF saved THEN [ex[r] EXCEPT !.pc = "finish"]
                ELSE Caught(ex[r], "OSError")]
    /\ UNCHANGED <<connections, db, results_file, clock, main, returned, calls>>

(* engine.py 106 *)
Finish(r) ==
    /\ ex[r].pc = "finish"
    /\ ex' = [ex EXCEPT ![r].pc = "load", ![r].result = finish(ex[r].result)]
    /\ UNCHANGED <<rules, connections, db, results_file, clock, main, returned, calls>>

(* engine.py 110, reporter.py 11-23: Reporter() loads the history file *)
LoadHistory(r) ==
    /\ ex[r].pc = "load"
    /\ ex' = [ex EXCEPT ![r].pc = "record", ![r].history = results_file]
    /\ UNCHANGED <<rules, connections, db, results_file, clock, main, returned, calls>>

(* keep_last keeping the first HistoryCap entries *)
keep_first(history) ==
    IF Len(history) > HistoryCap THEN SubSeq(history, 1, HistoryCap) ELSE history

(* reporter.py 36-37 *)
keep_last(history) ==
    IF Len(history) > HistoryCap
    THEN SubSeq(history, Len(history) - HistoryCap + 1, Len(history))
    ELSE history

(* reporter.py 30-39 up to the open of the file, which empties it *)
RecordResult(r) ==
    /\ ex[r].pc = "record"
    /\ LET entry == Stamped(to_dict(rules[r], ex[r].result), clock)
       IN  ex' = [ex EXCEPT ![r].pc = "save",
                            ![r].history = keep_last(Append(ex[r].history, entry))]
    /\ results_file' = << >>
    /\ clock' = clock + 1
    /\ UNCHANGED <<rules, connections, db, main, returned, calls>>

(* reporter.py 27-28: the dump and the close; execute_rule returns *)
SaveHistory(r) ==
    /\ ex[r].pc = "save"
    /\ results_file' = ex[r].history
    /\ ex' = [ex EXCEPT ![r].pc = "done"]
    /\ UNCHANGED <<rules, connections, db, clock, main, returned, calls>>

(* engine.py 113: the direct call returns the result's dict *)
ReturnResult ==
    /\ main.pc = "single"
    /\ LET r == main.rules[1]
       IN  /\ ex[r].pc = "done"
           /\ returned' = [kind |-> "result", error |-> None,
                           results |-> <<to_dict(rules[r], ex[r].result)>>]
    /\ main' = [main EXCEPT !.pc = "idle"]
    /\ UNCHANGED <<rules, connections, db, results_file, clock, ex, calls>>

(* Another client of the database inserts or deletes a row of table t1 *)
DbWrite ==
    /\ \/ \E v \in Values :
            /\ Len(db["t1"]) < MaxRows
            /\ db' = [db EXCEPT !["t1"] = Append(@, v)]
       \/ \E i \in DOMAIN db["t1"] :
            db' = [db EXCEPT !["t1"] =
                     SubSeq(@, 1, i - 1) \o SubSeq(@, i + 1, Len(@))]
    /\ UNCHANGED <<rules, connections, results_file, clock, ex, main, returned, calls>>

----------------------------------------------------------------------------
(* RuleManager.create_rule, rules/manager.py 79-117, and the configured    *)
(* connections, database/manager.py                                        *)

(* The type of each connection of the configuration file *)
ConnectionTypes == [main |-> "sqlite", pg |-> "postgresql", my |-> "mysql"]

connection_type(name) ==
    IF name \in DOMAIN ConnectionTypes THEN ConnectionTypes[name] ELSE None

valid_types ==
    {"value_range", "value_template", "data_continuity",
     "statistical_comparison", "cross_table_comparison", "boolean_combination"}

(* The calls of create_rule: a rule type and the config dict *)
CreateConfigs ==
    << [rule_type |-> "value_range",
        config |-> [table |-> "t1", column |-> "v", min_value |-> 1, max_value |-> 2]],
       [rule_type |-> "value_range",
        config |-> [table |-> "t1", column |-> "v", min_value |-> 1]],
       [rule_type |-> "value_range",
        config |-> [table |-> "t1", column |-> "v", min_value |-> 2, max_value |-> 1]],
       [rule_type |-> "value_range",
        config |-> [column |-> "v", min_value |-> 1, max_value |-> 2]],
       [rule_type |-> "value_template",
        config |-> [table |-> "t1", column |-> "v", pattern |-> DigitPattern]],
       [rule_type |-> "value_template",
        config |-> [table |-> "t1", column |-> "v", pattern |-> EmailPattern]],
       [rule_type |-> "value_template",
        config |-> [table |-> "t1", column |-> "v"]],
       [rule_type |-> "data_continuity",
        config |-> [table |-> "t1", column |-> "v"]],
       [rule_type |-> "statistical_comparison",
        config |-> [table |-> "t1", column |-> "v", operation |-> "sum",
                    compare_column |-> "v"]],
       [rule_type |-> "cross_table_comparison",
        config |-> [table |-> "g1", column |-> "v", compare_table |-> "g2"]],
       [rule_type |-> "boolean_combination",
        config |-> [table |-> "t1", column |-> "v", operator |-> "and"]],
       [rule_type |-> "custom_sql",
        config |-> [table |-> "t1", column |-> "v"]] >>

(* create_rule up to the save of the rules file: the rule made, or the     *)
(* error raised.  The parameters of the rule are the whole config dict.    *)
create_rule(id, rule_type, config) ==
    IF rule_type \notin valid_types
    THEN [error |-> "Invalid rule type", rule |-> << >>]
    ELSE IF "table" \notin DOMAIN config
    THEN [error |-> "KeyError", rule |-> << >>]
    ELSE [error |-> None,
          rule |-> [id |-> id, name |-> RuleName(id), rule_type |-> rule_type,
                    config |-> [table |-> config.table,
                                column |-> IF "column" \in DOMAIN config
                                           THEN config.column ELSE None,
                                parameters |-> config],
                    status |-> "active", tags |-> {}, last_run |-> Null]]

(* A call of create_rule: the store, which holds rules 1..n, gets rule     *)
(* n + 1, and the rules file is saved or its write raises                  *)
CreateRule(c, saved) ==
    /\ main.pc = "idle"
    /\ Len(rules) < MaxRules
    /\ LET id == Len(rules) + 1
           made == create_rule(id, CreateConfigs[c].rule_type, CreateConfigs[c].config)
       IN  /\ rules' = IF made.error = None THEN Append(rules, made.rule) ELSE rules
           /\ returned' =
                 [kind |-> IF made.error = None /\ saved THEN "created" ELSE "raise",
                  error |-> IF made.error # None THEN made.error
                            ELSE IF saved THEN None ELSE "OSError",
                  results |-> << >>, args |-> CreateConfigs[c]]
    /\ UNCHANGED <<connections, db, results_file, clock, ex, main, calls>>

(* validate_rule_configuration, engine.py 241-251: the errors of the       *)
(* parameters of the rule                                                  *)
validate_rule_configuration(rule) ==
    LET params == rule.config.parameters
    IN  IF rule.rule_type = "value_range"
        THEN IF "min_value" \notin DOMAIN params \/ "max_value" \notin DOMAIN params
             THEN {"Value range rules require 'min_value' and 'max_value' parameters"}
             ELSE IF params.min_value >= params.max_value
             THEN {"min_value must be less than max_value"}
             ELSE {}
        ELSE IF rule.rule_type = "value_template" /\ "pattern" \notin DOMAIN params
        THEN {"Value template rules require 'pattern' parameter"}
        ELSE {}

----------------------------------------------------------------------------
(* RuleEngine.execute_batch_rules, engine.py 115-156 *)

Tags == {None, "nightly"}

TableNames == {None, "t1", "t2"}

(* select_rules with the status of the rules left out *)
select_rules_of_any_status(table, tag) ==
    Ascending(
        IF table # None
        THEN {id \in DOMAIN rules : rules[id].config.table = table}
        ELSE IF tag # None
        THEN {id \in DOMAIN rules : tag \in rules[id].tags}
        ELSE DOMAIN rules)

(* engine.py 125-130 with get_rules_for_table and get_rules_by_tag *)
select_rules(table, tag) ==
    Ascending(
        IF table # None
        THEN {id \in DOMAIN rules : rules[id].config.table = table
                                    /\ rules[id].status = "active"}
        ELSE IF tag # None
        THEN {id \in DOMAIN rules : tag \in rules[id].tags
                                    /\ rules[id].status = "active"}
        ELSE {id \in DOMAIN rules : rules[id].status = "active"})

(* engine.py 125-142: the selection and the submission of one future per   *)
(* rule to a pool of max_workers threads                                   *)
BatchStart(table, tag, database, max_workers) ==
    /\ main.pc = "idle"
    /\ calls < MaxCalls
    /\ calls' = calls + 1
    /\ LET selected == select_rules(table, tag)
       IN  IF selected = << >>
           THEN /\ returned' = [kind |-> "list", error |-> None, results |-> << >>]
                /\ main' = IdleMain
                /\ ex' = ClearedExec
           ELSE /\ returned' = NothingReturned
                /\ main' = [IdleMain EXCEPT !.pc = "batch", !.rules = selected,
                                            !.queue = selected,
                                            !.database = database,
                                            !.max_workers = max_workers]
                /\ ex' = [id \in RuleIds |->
                            IF \E i \in DOMAIN selected : selected[i] = id
                            THEN [IdleExec EXCEPT !.pc = "queued"] ELSE IdleExec]
    /\ UNCHANGED <<rules, connections, db, results_file, clock>>

RunningPcs ==
    {"count", "validate", "stamp", "finish", "load", "record", "save", "hung"}

InFlight == {id \in RuleIds : ex[id].pc \in RunningPcs}

(* WorkerStart with a thread per queued future *)
WorkerStartUnbounded ==
    /\ main.pc = "batch"
    /\ main.queue # << >>
    /\ LET r == Head(main.queue)
           s == enter_execute_rule(r, main.database)
       IN  ex' = [ex EXCEPT ![r] =
                    IF s.raised # None
                    THEN [IdleExec EXCEPT !.pc = "raised", !.result.error = s.raised]
                    ELSE s.exec]
    /\ main' = [main EXCEPT !.queue = Tail(@)]
    /\ UNCHANGED <<rules, connections, db, results_file, clock, returned, calls>>

(* WorkerStart with the pool running one future at a time *)
WorkerStartSerial ==
    /\ main.pc = "batch"
    /\ main.queue # << >>
    /\ InFlight = {}
    /\ LET r == Head(main.queue)
           s == enter_execute_rule(r, main.database)
       IN  ex' = [ex EXCEPT ![r] =
                    IF s.raised # None
                    THEN [IdleExec EXCEPT !.pc = "raised", !.result.error = s.raised]
                    ELSE s.exec]
    /\ main' = [main EXCEPT !.queue = Tail(@)]
    /\ UNCHANGED <<rules, connections, db, results_file, clock, returned, calls>>

(* ThreadPoolExecutor: a thread of the pool, of which there are at most    *)
(* max_workers, takes the oldest queued future and enters execute_rule     *)
WorkerStart ==
    /\ main.pc = "batch"
    /\ main.queue # << >>
    /\ Cardinality(InFlight) < main.max_workers
    /\ LET r == Head(main.queue)
           s == enter_execute_rule(r, main.database)
       IN  ex' = [ex EXCEPT ![r] =
                    IF s.raised # None
                    THEN [IdleExec EXCEPT !.pc = "raised", !.result.error = s.raised]
                    ELSE s.exec]
    /\ main' = [main EXCEPT !.queue = Tail(@)]
    /\ UNCHANGED <<rules, connections, db, results_file, clock, returned, calls>>

(* engine.py 148-154: the result synthesized for a future that raised *)
error_result(rule, message) ==
    to_dict(rule, finish([NewResult EXCEPT !.error = message]))

(* Collect dropping the future that raised *)
CollectDropsRaised(r) ==
    /\ main.pc = "batch"
    /\ r \notin main.collected
    /\ ex[r].pc \in {"done", "raised"}
    /\ main' = [main EXCEPT
            !.collected = @ \cup {r},
            !.results = IF ex[r].pc = "done"
                        THEN Append(@, to_dict(rules[r], ex[r].result)) ELSE @]
    /\ UNCHANGED <<rules, connections, db, results_file, clock, ex, returned, calls>>

(* engine.py 144-154: as_completed yields a finished future *)
Collect(r) ==
    /\ main.pc = "batch"
    /\ r \notin main.collected
    /\ ex[r].pc \in {"done", "raised"}
    /\ main' = [main EXCEPT
            !.collected = @ \cup {r},
            !.results = Append(@,
                IF ex[r].pc = "done" THEN to_dict(rules[r], ex[r].result)
                ELSE error_result(rules[r], ex[r].result.error))]
    /\ UNCHANGED <<rules, connections, db, results_file, clock, ex, returned, calls>>

(* engine.py 156: every future was yielded, the pool is shut down *)
BatchReturn ==
    /\ main.pc = "batch"
    /\ main.collected = {main.rules[i] : i \in DOMAIN main.rules}
    /\ returned' = [kind |-> "list", error |-> None, results |-> main.results]
    /\ main' = [main EXCEPT !.pc = "idle"]
    /\ UNCHANGED <<rules, connections, db, results_file, clock, ex, calls>>

----------------------------------------------------------------------------
(* The Reporter's reports: core/reporter.py.  Time is counted in ticks of   *)
(* the clock, TicksPerDay to the calendar day; a timestamp is the tick of   *)
(* its isoformat text, Null when the entry has none and Garbled when the    *)
(* text is not a date.                                                      *)

TicksPerDay == 2

Garbled == -2

(* datetime.fromisoformat(result.get('timestamp', '')) *)
fromisoformat(ts) ==
    IF ts >= 0 THEN [error |-> None, value |-> ts]
    ELSE [error |-> "ValueError", value |-> 0]

(* timestamp[:10], the calendar day *)
date_str(ts) == ts \div TicksPerDay

(* now - timedelta(days=days) *)
cutoff_date(now, days) == now - days * TicksPerDay

(* reporter.py 46-53 *)
filter_results(history, now, days) ==
    LET Keep(result) ==
            LET result_date == fromisoformat(result.timestamp)
            IN  result_date.error = None
                /\ result_date.value >= cutoff_date(now, days)
    IN  SelectSeq(history, Keep)

(* The keys of a dict filled in the order of seq: first appearances *)
InsertionOrder(seq) ==
    LET firsts == {i \in DOMAIN seq : \A j \in 1 .. (i - 1) : seq[j] # seq[i]}
        order == Ascending(firsts)
    IN  [n \in DOMAIN order |-> seq[order[n]]]

(* top_issues sorted without reverse=True: lowest failure rate first *)
RECURSIVE sort_ascending(_)
sort_ascending(issues) ==
    IF issues = << >> THEN << >>
    ELSE LET front == sort_ascending(SubSeq(issues, 1, Len(issues) - 1))
             x == issues[Len(issues)]
             before == {i \in DOMAIN front :
                          ~ RatioLess(x.failure_rate, front[i].failure_rate)}
             n == Cardinality(before)
         IN  SubSeq(front, 1, n) \o <<x>> \o SubSeq(front, n + 1, Len(front))

(* list.sort(key=failure_rate, reverse=True): stable, highest rate first *)
RECURSIVE sort_by_failure_rate(_)
sort_by_failure_rate(issues) ==
    IF issues = << >> THEN << >>
    ELSE LET front == sort_by_failure_rate(SubSeq(issues, 1, Len(issues) - 1))
             x == issues[Len(issues)]
             before == {i \in DOMAIN front :
                          ~ RatioLess(front[i].failure_rate, x.failure_rate)}
             n == Cardinality(before)
         IN  SubSeq(front, 1, n) \o <<x>> \o SubSeq(front, n + 1, Len(front))

(* reporter.py 76-105: the issue of one rule of the filtered results *)
rule_issue(filtered, rule_id) ==
    LET Mine(result) == result.rule_id = rule_id
        mine == SelectSeq(filtered, Mine)
        Failed(result) == ~ result.passed
    IN  [rule_name |-> mine[1].rule_name, rule_id |-> rule_id,
         avg_pass_rate |->
            RatioScale(RatioSum([i \in DOMAIN mine |-> mine[i].pass_rate]),
                       1, Len(mine)),
         failure_rate |-> Ratio(Len(SelectSeq(mine, Failed)) * 100, Len(mine)),
         executions |-> Len(mine)]

(* overall_score with no cap *)
overall_score_uncapped(avg_pass_rate, total_executions, days) ==
    RatioAdd(RatioScale(avg_pass_rate, 4, 5),
             Ratio(total_executions, days * 10 * 5))

(* reporter.py 72-73: avg_pass_rate * 0.8 + (n / (days * 10)) * 0.2, at    *)
(* most 100                                                                *)
overall_score(avg_pass_rate, total_executions, days) ==
    LET score == RatioAdd(RatioScale(avg_pass_rate, 4, 5),
                          Ratio(total_executions, days * 10 * 5))
    IN  IF RatioLess(Ratio(100, 1), score) THEN Ratio(100, 1) ELSE score

(* Reporter.generate_summary_report: the report, or the error raised.  The *)
(* name avg_pass_rate is assigned again for each rule in the loop of the   *)
(* issues, and the report is built after the loop.                         *)
generate_summary_report(history, now, days) ==
    LET filtered == filter_results(history, now, days)
        total_executions == Len(filtered)
        ids == InsertionOrder([i \in DOMAIN filtered |-> filtered[i].rule_id])
        pass_rates == [i \in DOMAIN filtered |-> filtered[i].pass_rate]
        avg_pass_rate == RatioScale(RatioSum(pass_rates), 1, Len(pass_rates))
        issues == [i \in DOMAIN ids |-> rule_issue(filtered, ids[i])]
    IN  IF filtered = << >>
        THEN [error |-> None,
              report |-> [overall_score |-> Zero, total_rules |-> 0,
                          avg_pass_rate |-> Zero, total_executions |-> 0,
                          top_issues |-> << >>]]
        ELSE IF days = 0
        THEN [error |-> "ZeroDivisionError", report |-> [total_executions |-> 0]]
        ELSE [error |-> None,
              report |-> [overall_score |->
                              overall_score(avg_pass_rate, total_executions, days),
                          total_rules |-> Len(ids),
                          avg_pass_rate |-> issues[Len(issues)].avg_pass_rate,
                          total_executions |-> total_executions,
                          top_issues |-> sort_by_failure_rate(issues),
                          period_days |-> days, generated_at |-> now]]

(* trend_direction naming a single day's series stable *)
trend_direction_of_any(rates) ==
    LET n == Len(rates)
        recent_avg == RatioScale(RatioSum(SubSeq(rates, n - Min(TrendWindow, n) + 1, n)),
                                 1, Min(TrendWindow, n))
        older == SubSeq(rates, 1, n - Min(TrendWindow, n))
        older_avg == RatioScale(RatioSum(older), 1,
                                IF n - TrendWindow > 1 THEN n - TrendWindow ELSE 1)
    IN  IF RatioLess(RatioAdd(older_avg, Ratio(1, 1)), recent_avg) THEN "improving"
        ELSE IF RatioLess(recent_avg, RatioAdd(older_avg, Ratio(-1, 1)))
        THEN "declining"
        ELSE "stable"

(* reporter.py 175-186: trend_data[-7:] against trend_data[:-7], whose sum *)
(* over no point is 0 and is divided by max(1, n - 7)                      *)
trend_direction(rates) ==
    LET n == Len(rates)
        recent_avg == RatioScale(RatioSum(SubSeq(rates, n - Min(TrendWindow, n) + 1, n)),
                                 1, Min(TrendWindow, n))
        older == SubSeq(rates, 1, n - Min(TrendWindow, n))
        older_avg == RatioScale(RatioSum(older), 1,
                                IF n - TrendWindow > 1 THEN n - TrendWindow ELSE 1)
    IN  IF n >= 2
        THEN IF RatioLess(RatioAdd(older_avg, Ratio(1, 1)), recent_avg)
             THEN "improving"
             ELSE IF RatioLess(recent_avg, RatioAdd(older_avg, Ratio(-1, 1)))
             THEN "declining"
             ELSE "stable"
        ELSE "insufficient_data"

(* reporter.py 144-168: the point of one calendar day *)
daily_point(rule_results, date) ==
    LET OfDay(result) == date_str(result.timestamp) = date
        day == SelectSeq(rule_results, OfDay)
    IN  [date |-> date,
         pass_rate |-> RatioScale(RatioSum([i \in DOMAIN day |-> day[i].pass_rate]),
                                  1, Len(day)),
         executions |-> Len(day),
         total_records |-> Sum([i \in DOMAIN day |-> day[i].total_records])]

(* The days of daily_stats in the order the dict got them *)
unsorted_dates(rule_results) ==
    InsertionOrder([i \in DOMAIN rule_results |-> date_str(rule_results[i].timestamp)])

(* reporter.py 161: the keys of sorted(daily_stats.items()) *)
sorted_dates(rule_results) ==
    Ascending({date_str(rule_results[i].timestamp) : i \in DOMAIN rule_results})

(* Reporter.generate_trend_report *)
generate_trend_report(history, now, rule_id, days) ==
    LET Keep(result) ==
            LET result_date == fromisoformat(result.timestamp)
            IN  /\ result_date.error = None
                /\ result_date.value >= cutoff_date(now, days)
                /\ result.rule_id = rule_id
        rule_results == SelectSeq(history, Keep)
        dates == sorted_dates(rule_results)
        trend_data == [i \in DOMAIN dates |-> daily_point(rule_results, dates[i])]
        all_pass_rates == [i \in DOMAIN trend_data |-> trend_data[i].pass_rate]
    IN  IF rule_results = << >>
        THEN [rule_id |-> rule_id, trend_data |-> << >>,
              average_pass_rate |-> Zero, trend_direction |-> "stable"]
        ELSE [rule_id |-> rule_id, trend_data |-> trend_data,
              average_pass_rate |->
                  RatioScale(RatioSum(all_pass_rates), 1, Len(all_pass_rates)),
              trend_direction |-> trend_direction(all_pass_rates),
              period_days |-> days]

(* A call of generate_summary_report on a new Reporter, which loads the    *)
(* history file                                                            *)
GenerateSummaryReport(days) ==
    /\ main.pc = "idle"
    /\ calls < MaxCalls
    /\ calls' = calls + 1
    /\ LET r == generate_summary_report(results_file, clock, days)
       IN  returned' = [kind |-> IF r.error = None THEN "summary" ELSE "raise",
                        error |-> r.error, results |-> <<r.report>>,
                        args |-> [days |-> days, rule_id |-> Null]]
    /\ UNCHANGED <<rules, connections, db, results_file, clock, ex, main>>

(* A call of generate_trend_report on a new Reporter *)
GenerateTrendReport(rule_id, days) ==
    /\ main.pc = "idle"
    /\ calls < MaxCalls
    /\ calls' = calls + 1
    /\ returned' = [kind |-> "trend", error |-> None,
                    results |-> <<generate_trend_report(results_file, clock,
                                                         rule_id, days)>>,
                    args |-> [days |-> days, rule_id |-> rule_id]]
    /\ UNCHANGED <<rules, connections, db, results_file, clock, ex, main>>

----------------------------------------------------------------------------
(* Specifications *)

OldLen == 1

CompareTables == {<< >>, <<0>>, <<2>>}

InitEngine ==
    /\ ex = ClearedExec
    /\ main = IdleMain
    /\ returned = NothingReturned
    /\ calls = 0

(* Any store, any table t1, the history of one earlier execution *)
Init ==
    /\ rules \in RuleStores
    /\ connections \in {<< >>, <<"main">>}
    /\ db \in {[t1 |-> a, t2 |-> b] : a \in Tables, b \in CompareTables}
    /\ results_file = OldHistory(OldLen)
    /\ clock = OldLen + 1
    /\ InitEngine

Step(r) ==
    \/ CountQuery(r)
    \/ ValidationQuery(r)
    \/ QueryRaises(r)
    \/ \E saved \in BOOLEAN : UpdateLastRun(r, saved)
    \/ Finish(r)
    \/ LoadHistory(r)
    \/ RecordResult(r)
    \/ SaveHistory(r)

(* Direct calls of execute_rule, one after the other *)
NextQuiet ==
    \/ \E key \in Keys, database \in Databases : CallExecuteRule(key, database)
    \/ \E r \in RuleIds : Step(r)
    \/ ReturnResult

(* The same against a database that other clients write *)
Next ==
    \/ NextQuiet
    \/ DbWrite

Spec == Init /\ [][Next]_vars

SpecQuiet == Init /\ [][NextQuiet]_vars

(* A batch over the store, against a database no other client writes *)
InitBatch ==
    /\ rules \in RuleStores
    /\ connections \in {<< >>, <<"main">>}
    /\ db \in {[t1 |-> a, t2 |-> <<2>>] : a \in TablesOfLen(1)}
    /\ results_file = OldHistory(OldLen)
    /\ clock = OldLen + 1
    /\ InitEngine

NextBatch ==
    \/ \E table \in TableNames, tag \in Tags, database \in Databases,
          max_workers \in (1 .. MaxWorkers) \cup {DefaultMaxWorkers} :
            BatchStart(table, tag, database, max_workers)
    \/ WorkerStart
    \/ \E r \in RuleIds : Step(r)
    \/ \E r \in RuleIds : QueryHangs(r)
    \/ \E r \in RuleIds : Collect(r)
    \/ BatchReturn

SpecBatch == InitBatch /\ [][NextBatch]_vars

(* A batch over a store whose rules are active or inactive, tagged or not, *)
(* and on either table                                                     *)
RuleStates ==
    [status : {"active", "inactive"}, tags : {{}, {"nightly"}}, table : {"t1", "t2"}]

InitSelect ==
    /\ rules \in {[id \in RuleIds |->
                      [MkRule(id, KindAt(id)) EXCEPT !.status = st[id].status,
                                                     !.tags = st[id].tags,
                                                     !.config.table = st[id].table]] :
                  st \in [RuleIds -> RuleStates]}
    /\ connections = <<"main">>
    /\ db = [t1 |-> <<0>>, t2 |-> <<2>>]
    /\ results_file = OldHistory(OldLen)
    /\ clock = OldLen + 1
    /\ InitEngine

SpecSelect == InitSelect /\ [][NextBatch]_vars

(* The same with the scheduling of the threads: a thread that can run does *)
SpecBatchLive ==
    /\ SpecBatch
    /\ WF_vars(WorkerStart)
    /\ \A r \in RuleIds : WF_vars(Step(r)) /\ WF_vars(Collect(r))
    /\ WF_vars(BatchReturn)

(* Direct calls with the history file at its cap or one entry below it *)
InitCap ==
    /\ rules \in RuleStores
    /\ connections = <<"main">>
    /\ db = [t1 |-> <<0, 1>>, t2 |-> <<2>>]
    /\ \E n \in {HistoryCap - 1, HistoryCap} :
          results_file = OldHistory(n) /\ clock = n + 1
    /\ InitEngine

SpecCap == InitCap /\ [][NextQuiet]_vars

(* Direct calls of execute_rule on cross_table_comparison rules, over the   *)
(* keyed tables g1 (subject) and g2 (comparison)                           *)
CrossKinds ==
    << [rule_type |-> "cross_table_comparison",
        parameters |-> [compare_table |-> "g2", compare_column |-> "v"]],
       [rule_type |-> "cross_table_comparison",
        parameters |-> [compare_table |-> "g2", compare_column |-> "v",
                        operation |-> "count"]] >>

MkCrossRule(id) ==
    [MkRule(id, CrossKinds[((id - 1) % Len(CrossKinds)) + 1])
        EXCEPT !.config.table = "g1"]

CrossValues == {0, 1, Null}

KeyedRows == [id : 1 .. MaxKeys, v : CrossValues]

RECURSIVE KeyedTablesOfLen(_)
KeyedTablesOfLen(n) ==
    IF n = 0 THEN {<< >>}
    ELSE {Append(t, row) : t \in KeyedTablesOfLen(n - 1), row \in KeyedRows}

KeyedTables(n) == UNION {KeyedTablesOfLen(m) : m \in 0 .. n}

InitCross ==
    /\ rules = [id \in RuleIds |-> MkCrossRule(id)]
    /\ connections = <<"main">>
    /\ db \in {[t1 |-> << >>, t2 |-> << >>, g1 |-> a, g2 |-> b] :
                 a \in KeyedTables(MaxGroupRows), b \in KeyedTables(MaxCompareRows)}
    /\ results_file = OldHistory(OldLen)
    /\ clock = OldLen + 1
    /\ InitEngine

NextCross ==
    \/ \E key \in RuleIds : CallExecuteRule(key, None)
    \/ \E r \in RuleIds : Step(r)
    \/ ReturnResult

SpecCross == InitCross /\ [][NextCross]_vars

(* Reports over a history file: any short history of entries of any rule,  *)
(* rate and timestamp (none, not a date, before every window but the       *)
(* longest, the two ticks of yesterday, later than now), a history of more *)
(* entries than the engine keeps, and the daily series of rule 1: a run of *)
(* days at one rate followed by a run of days at another.                  *)
Now == 20 * TicksPerDay

PassedOfHundred == {0, 50, 98, 99, 100}

HistoryEntry(id, p, ts) ==
    Stamped(to_dict(MkRule(id, KindAt(id)),
                    finish([NewResult EXCEPT !.total_records = 100,
                                             !.passed_records = p,
                                             !.failed_records = 100 - p])), ts)

ShortTimes == {Null, Garbled, 1, Now - 2, Now - 1, Now + 2}

ShortEntries ==
    {HistoryEntry(id, p, ts) : id \in RuleIds, p \in {0, 50, 100}, ts \in ShortTimes}

RECURSIVE HistoriesOfLen(_)
HistoriesOfLen(n) ==
    IF n = 0 THEN {<< >>}
    ELSE {Append(h, e) : h \in HistoriesOfLen(n - 1), e \in ShortEntries}

ShortHistories == UNION {HistoriesOfLen(n) : n \in 0 .. MaxHistory}

LongHistory == [i \in 1 .. HistoryCap + 1 |-> HistoryEntry(1, 100, Now - 1)]

(* n1 days at p1 of a hundred, then n2 days at p2, one execution a day *)
DailySeries(n1, p1, n2, p2) ==
    [i \in 1 .. n1 + n2 |->
        HistoryEntry(1, IF i <= n1 THEN p1 ELSE p2, i * TicksPerDay)]

SeriesHistories ==
    {DailySeries(n1, p1, n2, p2) :
        n1 \in 1 .. MaxSeries, n2 \in 0 .. MaxSeries,
        p1 \in PassedOfHundred, p2 \in PassedOfHundred}

WindowDays == {0, 1, DefaultSummaryDays, DefaultTrendDays}

InitReport ==
    /\ rules = [id \in RuleIds |-> MkRule(id, KindAt(id))]
    /\ connections = <<"main">>
    /\ db = [t1 |-> << >>, t2 |-> << >>]
    /\ results_file \in ShortHistories \cup SeriesHistories \cup {LongHistory}
    /\ clock = Now
    /\ InitEngine

NextReport ==
    \/ \E days \in WindowDays : GenerateSummaryReport(days)
    \/ \E rule_id \in RuleIds, days \in WindowDays :
          GenerateTrendReport(rule_id, days)

SpecReport == InitReport /\ [][NextReport]_vars

(* Rules made by create_rule in an empty store, then executed on the first *)
(* configured connection, which is of any type                             *)
InitCreate ==
    /\ rules = << >>
    /\ connections \in {<<"main">>, <<"pg">>, <<"my">>}
    /\ db \in {[t1 |-> a, t2 |-> <<2>>, g1 |-> << >>, g2 |-> << >>] :
                 a \in {<<0>>, <<3, Null>>}}
    /\ results_file = OldHistory(OldLen)
    /\ clock = OldLen + 1
    /\ InitEngine

NextCreate ==
    \/ \E c \in DOMAIN CreateConfigs, saved \in BOOLEAN : CreateRule(c, saved)
    \/ \E key \in RuleIds : CallExecuteRule(key, None)
    \/ \E r \in RuleIds : Step(r)
    \/ ReturnResult

SpecCreate == InitCreate /\ [][NextCreate]_vars

----------------------------------------------------------------------------
(* Properties *)

SealedPcs == {"load", "record", "save", "done"}

(* The results execute_rule has sealed or a call has returned *)
SealedResults ==
    {to_dict(rules[r], ex[r].result) : r \in {id \in RuleIds : ex[id].pc \in SealedPcs}}
    \cup {returned.results[i] : i \in DOMAIN returned.results}

(* C1: every sealed result with total_records > 0 has                      *)
(* pass_rate = passed_records / total_records * 100 and                    *)
(* passed = (pass_rate >= 100); with total_records = 0 it has pass_rate    *)
(* 0.0 and passed false.                                                   *)
C1_FinishMetrics ==
    \A d \in SealedResults :
        IF d.total_records > 0
        THEN /\ d.pass_rate.num * d.total_records
                    = d.passed_records * 100 * d.pass_rate.den
             /\ d.pass_rate.den > 0
             /\ d.passed = (d.pass_rate.num >= 100 * d.pass_rate.den)
        ELSE d.pass_rate = Zero /\ d.passed = FALSE

C1_Witness ==
    \E d \in SealedResults :
        /\ d.total_records > 1
        /\ d.passed_records > 0
        /\ d.passed_records < d.total_records

(* C2: every result returned without an error for a row-counting rule type *)
(* has passed_records + failed_records = total_records, also when the      *)
(* validation query returned no rows.                                      *)
C2_RowsAddUp ==
    \A d \in SealedResults :
        (d.error = None /\ rules[d.rule_id].rule_type \in RowCountingTypes)
            => d.passed_records + d.failed_records = d.total_records

(* The non-null values of table t1 and those outside the rule's range *)
NonNullRows(rows) == {i \in DOMAIN rows : rows[i] # Null}

OutsideRows(rows, lo, hi) ==
    {i \in DOMAIN rows : rows[i] # Null /\ ~ (lo <= rows[i] /\ rows[i] <= hi)}

(* C3: for a table with T non-null values of which F lie outside           *)
(* [min_value, max_value], a value_range execution returns total_records   *)
(* T, failed_records F, passed_records T - F, pass_rate (T - F) / T * 100  *)
(* and passed = (F = 0 and T > 0).                                         *)
C3_ValueRangeEndToEnd ==
    \A r \in RuleIds :
        (/\ rules[r].rule_type = "value_range"
         /\ ex[r].pc = "done"
         /\ ex[r].result.error = None)
        => LET p == rules[r].config.parameters
               T == Cardinality(NonNullRows(db["t1"]))
               F == Cardinality(OutsideRows(db["t1"], p.min_value, p.max_value))
               d == ex[r].result
           IN  /\ d.total_records = T
               /\ d.failed_records = F
               /\ d.passed_records = T - F
               /\ T > 0 => d.pass_rate.num * T = (T - F) * 100 * d.pass_rate.den
               /\ d.passed = (F = 0 /\ T > 0)

(* The errors the query executor raises *)
QueryErrors == {"SQLAlchemyError", "Connection not found"}

(* C4: an error raised by the query executor, on the count query or on the *)
(* validation query, is caught: the call goes on to seal its result and    *)
(* does not raise, and the sealed result has the error set, passed false   *)
(* and pass_rate 0.0.                                                      *)
C4_QueryErrorCaught ==
    /\ \A r \in RuleIds :
          ex[r].result.error \in QueryErrors
            => /\ ex[r].pc \in {"finish"} \cup SealedPcs
               /\ ex[r].pc \in SealedPcs
                    => ex[r].result.passed = FALSE /\ ex[r].result.pass_rate = Zero
    /\ returned.kind = "raise" => returned.error \notin QueryErrors
    /\ \A d \in SealedResults :
          d.error \in QueryErrors => d.passed = FALSE /\ d.pass_rate = Zero

C4_Witness ==
    /\ returned.kind = "result"
    /\ returned.results[1].error = "SQLAlchemyError"
    /\ returned.results[1].total_records > 0

(* C5: in every sealed or returned result, if error is set then passed is  *)
(* false, wherever in the execution the error was raised.                  *)
C5_ErrorMeansFailed ==
    \A d \in SealedResults : d.error # None => d.passed = FALSE

Selected == {main.rules[i] : i \in DOMAIN main.rules}

BatchReturned == main.pc = "idle" /\ returned.kind = "list"

(* C6: execute_batch_rules returns only after every submitted execution    *)
(* has finished, and returns exactly one result per selected rule; an      *)
(* execution that raised has a result with error set and passed false.     *)
C6_BatchComplete ==
    BatchReturned =>
        /\ Len(returned.results) = Len(main.rules)
        /\ \A r \in RuleIds :
              Cardinality({i \in DOMAIN returned.results :
                              returned.results[i].rule_id = r})
                = Cardinality({i \in DOMAIN main.rules : main.rules[i] = r})
        /\ \A r \in Selected :
              /\ ex[r].pc \in {"done", "raised"}
              /\ ex[r].pc = "raised"
                    => \E i \in DOMAIN returned.results :
                          /\ returned.results[i].rule_id = r
                          /\ returned.results[i].error # None
                          /\ returned.results[i].passed = FALSE

C6_Witness ==
    /\ BatchReturned
    /\ Len(returned.results) >= 2
    /\ \E r \in Selected : ex[r].pc = "raised"

(* C7: once every call has returned, the history file holds every entry    *)
(* ever appended, in the order of the appends: entry i is the one appended *)
(* at time i, for every time before now (each append takes one tick of the *)
(* clock, and the entries present at the start were appended at 1..OldLen) *)
C7_NoEntryLost ==
    (main.pc = "idle" /\ Len(results_file) < HistoryCap)
        => /\ Len(results_file) = clock - 1
           /\ \A i \in DOMAIN results_file : results_file[i].timestamp = i

(* C9: during a batch the executions in flight are at most max_workers *)
C9_BoundedInFlight ==
    main.pc = "batch" => Cardinality(InFlight) <= main.max_workers

C9_Witness ==
    /\ main.pc = "batch"
    /\ main.queue # << >>
    /\ Cardinality(InFlight) = main.max_workers

(* C8: after every record_execution_result the history holds at most      *)
(* HistoryCap entries: the new entry last, before it the latest entries of *)
(* the previous history in their order, the oldest dropped.                *)
C8_CapKeepsLatest ==
    [][\A r \in RuleIds :
          (ex[r].pc = "record" /\ ex'[r].pc = "save")
            => LET old == ex[r].history
                   new == ex'[r].history
                   n == Len(new)
               IN  /\ n = Min(Len(old) + 1, HistoryCap)
                   /\ new[n].timestamp = clock
                   /\ new[n].rule_id = r
                   /\ \A i \in 1 .. (n - 1) : new[i] = old[Len(old) - (n - 1) + i]
                   /\ Len(results_file) <= HistoryCap]_vars

C8_Witness ==
    \E r \in RuleIds :
        /\ ex[r].pc = "done"
        /\ Len(results_file) = HistoryCap
        /\ results_file[1].timestamp = 2
        /\ results_file[HistoryCap].timestamp = HistoryCap + 1

Hung == {id \in RuleIds : ex[id].pc = "hung"}

Completed == {id \in RuleIds : ex[id].pc \in {"done", "raised"}}

(* C10: when the query of one selected rule never returns, every other     *)
(* selected rule's execution is eventually started and completed.          *)
C10_OthersComplete ==
    \A h \in RuleIds :
        [](Hung = {h} => <>(Hung # {h} \/ Selected \ {h} \subseteq Completed))

(* C10 as amended: when fewer executions hang than the pool has threads,   *)
(* every other selected rule's execution is eventually started and         *)
(* completed.                                                              *)
C10_OthersCompleteWhileAThreadIsLeft ==
    \A r \in RuleIds :
        []((main.pc = "batch" /\ r \in Selected)
              => <>(\/ r \in Completed \cup Hung
                    \/ Cardinality(Hung) >= main.max_workers))

C10_Witness ==
    /\ main.pc = "batch"
    /\ Hung # {}
    /\ Cardinality(Hung) < main.max_workers
    /\ Selected \ Hung # {}
    /\ Selected \ Hung \subseteq Completed

----------------------------------------------------------------------------
(* The SQL of the rule types *)

(* The executions whose validation query was run and read *)
Validated ==
    {r \in RuleIds : /\ ex[r].pc \in {"stamp", "finish"} \cup SealedPcs
                      /\ ex[r].result.error \in {None, "OSError"}}

(* C11: a statistical_comparison of aggregates a (subject) and b           *)
(* (comparison) passes when both are zero, fails when only b is zero, and  *)
(* for b non-zero passes iff |a - b| / b <= threshold, the quotient being  *)
(* the exact ratio.                                                        *)
C11_StatisticalExact ==
    \A r \in RuleIds :
        (/\ rules[r].rule_type = "statistical_comparison"
         /\ ex[r].pc = "done"
         /\ ex[r].result.error = None)
        => LET p == rules[r].config.parameters
               a == Aggregate(p.operation, db[rules[r].config.table])
               b == Aggregate(p.operation, db[p.compare_table])
               t == DefaultThreshold
           IN  (a # Null /\ b # Null)
                 => ex[r].result.passed
                      = IF b = 0 THEN a = 0
                        ELSE Abs(a - b) * t.den <= t.num * b

(* The rows the validation query of cross rule r returns *)
CrossOutput(r) == execute_query(db, generate_validation_sql(rules[r]).sql)

CrossOperation(r) ==
    IF "operation" \in DOMAIN rules[r].config.parameters
    THEN rules[r].config.parameters.operation ELSE DefaultOperation

Reported(r, k) == \E i \in DOMAIN CrossOutput(r) : CrossOutput(r)[i].join_id = k

(* C12: a join-key group of the subject table with no group of the same    *)
(* key in the comparison table is compared against 0: it is reported, and  *)
(* counted as a failure, iff its subject aggregate is not 0.               *)
C12_SubjectOnlyGroup ==
    \A r \in Validated :
        LET out == CrossOutput(r)
            rows1 == db["g1"]
            rows2 == db["g2"]
        IN  /\ ex[r].result.failed_records = Len(out)
            /\ \A k \in Groups(rows1) \ Groups(rows2) :
                  LET a == GroupAgg(CrossOperation(r), rows1, k)
                  IN  /\ Reported(r, k) <=> a # 0
                      /\ \A i \in DOMAIN out :
                            out[i].join_id = k
                              => out[i].agg_value1 = a /\ out[i].difference = Abs(a)

C12_Witness ==
    \E r \in RuleIds :
        /\ ex[r].pc = "done"
        /\ ex[r].result.failed_records = 1
        /\ \E k \in Groups(db["g1"]) \ Groups(db["g2"]) : Reported(r, k)
        /\ \E k \in Groups(db["g1"]) \ Groups(db["g2"]) : ~ Reported(r, k)

(* The aggregate of group k of rows, 0 when rows has no such group *)
AggOrZero(operation, rows, k) ==
    IF k \in Groups(rows) THEN GroupAgg(operation, rows, k) ELSE 0

(* C13: every join key that has a group in the subject table or in the     *)
(* comparison table is reported iff its two aggregates differ, a missing   *)
(* side counting as 0.                                                     *)
C13_EveryDifferingGroup ==
    \A r \in Validated :
        \A k \in Groups(db["g1"]) \cup Groups(db["g2"]) :
            Reported(r, k)
              <=> AggOrZero(CrossOperation(r), db["g1"], k)
                    # AggOrZero(CrossOperation(r), db["g2"], k)

(* C13 as amended: every join key that has a group in the subject table is *)
(* reported, once, iff its aggregate differs from that of the comparison   *)
(* table's group, a missing comparison group counting as 0; a key with a   *)
(* group in the comparison table only is never reported.                   *)
C13_EveryDifferingSubjectGroup ==
    \A r \in Validated :
        LET out == CrossOutput(r)
        IN  /\ \A k \in Groups(db["g1"]) :
                  Reported(r, k)
                    <=> AggOrZero(CrossOperation(r), db["g1"], k)
                          # AggOrZero(CrossOperation(r), db["g2"], k)
            /\ \A i \in DOMAIN out : out[i].join_id \in Groups(db["g1"])
            /\ \A i, j \in DOMAIN out : out[i].join_id = out[j].join_id => i = j
            /\ ex[r].result.failed_records = Len(out)

C13_Witness ==
    \E r \in RuleIds :
        /\ ex[r].pc = "done"
        /\ \E k \in Groups(db["g1"]) \cap Groups(db["g2"]) : Reported(r, k)
        /\ ex[r].result.failed_records = 1
        /\ ex[r].result.total_records = 2

(* C14: in a value_range execution a row whose value equals min_value or   *)
(* max_value is not a failure, and a row whose value is null is counted    *)
(* neither in total_records nor in failed_records.                         *)
C14_InclusiveBoundsNullsOut ==
    \A r \in Validated :
        rules[r].rule_type = "value_range"
        => LET p == rules[r].config.parameters
               rows == db[rules[r].config.table]
               nulls == {i \in DOMAIN rows : rows[i] = Null}
               inside == {i \in DOMAIN rows : rows[i] \in p.min_value .. p.max_value}
           IN  /\ ex[r].result.total_records = Len(rows) - Cardinality(nulls)
               /\ ex[r].result.failed_records
                     = Len(rows) - Cardinality(nulls) - Cardinality(inside)

C14_Witness ==
    \E r \in RuleIds :
        /\ rules[r].rule_type = "value_range"
        /\ ex[r].pc = "done"
        /\ ex[r].result.error = None
        /\ \E i, j \in DOMAIN db["t1"] :
              /\ db["t1"][i] = rules[r].config.parameters.max_value
              /\ db["t1"][j] = Null
        /\ ex[r].result.total_records = 1
        /\ ex[r].result.failed_records = 0

----------------------------------------------------------------------------
(* The reports *)

Report == returned.results[1]

(* The entries of the history whose timestamp is a date not before the     *)
(* start of the window of the given days                                   *)
Kept(days) ==
    {i \in DOMAIN results_file :
        /\ results_file[i].timestamp \notin {Null, Garbled}
        /\ results_file[i].timestamp >= clock - days * TicksPerDay}

(* Those of them that are not later than now *)
Within(days) == {i \in Kept(days) : results_file[i].timestamp <= clock}

(* The sum of the pass rates of the kept entries among lo..hi *)
RECURSIVE KeptRateSum(_, _, _)
KeptRateSum(days, lo, hi) ==
    IF lo > hi THEN Zero
    ELSE IF lo = hi
    THEN (IF lo \in Kept(days) THEN results_file[lo].pass_rate ELSE Zero)
    ELSE LET mid == (lo + hi) \div 2
         IN  RatioAdd(KeptRateSum(days, lo, mid), KeptRateSum(days, mid + 1, hi))

KeptMean(days) ==
    RatioScale(KeptRateSum(days, 1, Len(results_file)), 1, Cardinality(Kept(days)))

(* C15: the avg_pass_rate of a summary report is the mean of the pass      *)
(* rates of all the entries in the window, of all rules together, and 0.0  *)
(* when there is none.                                                     *)
C15_AvgPassRateIsOverallMean ==
    returned.kind = "summary"
      => Report.avg_pass_rate
           = IF Kept(returned.args.days) = {} THEN Zero
             ELSE KeptMean(returned.args.days)

(* C16: a summary report counts an entry iff its timestamp is a date       *)
(* within [now - days, now]: older entries, entries later than now and     *)
(* entries with no or no readable timestamp are left out, and none makes   *)
(* the report raise.                                                       *)
C16_WindowBothEnds ==
    /\ returned.kind = "summary"
          => Report.total_executions = Cardinality(Within(returned.args.days))
    /\ returned.error # "ValueError"

(* C17: a summary report over a non-empty window has total_executions the  *)
(* number of entries in the window, total_rules the number of their        *)
(* distinct rule ids, and overall_score                                    *)
(* min(100, mean * 0.8 + (total_executions / (days * 10)) * 0.2), so at    *)
(* most 100.                                                               *)
C17_OverallScore ==
    (returned.kind = "summary" /\ Kept(returned.args.days) # {})
      => LET days == returned.args.days
             n == Cardinality(Kept(days))
             score == RatioAdd(RatioScale(KeptMean(days), 8, 10),
                               RatioScale(Ratio(n, days * 10), 2, 10))
         IN  /\ Report.total_executions = n
             /\ Report.total_rules
                   = Cardinality({results_file[i].rule_id : i \in Kept(days)})
             /\ Report.overall_score
                   = IF score.num > 100 * score.den THEN Ratio(100, 1) ELSE score
             /\ Report.overall_score.num <= 100 * Report.overall_score.den

C17_Witness ==
    /\ returned.kind = "summary"
    /\ Report.total_executions > 1000 * returned.args.days
    /\ Report.overall_score = Ratio(100, 1)

(* C18: top_issues holds one item per distinct rule id of the window, with *)
(* failure_rate the share of its entries that did not pass, times 100, the *)
(* items by non-increasing failure_rate; over an empty window the report   *)
(* is all zeros with no issue, and the call does not raise.                *)
C18_TopIssues ==
    /\ returned.kind = "summary"
          => LET K == Kept(returned.args.days)
                 top == Report.top_issues
             IN  /\ Len(top) = Cardinality({results_file[i].rule_id : i \in K})
                 /\ \A i \in K : \E j \in DOMAIN top :
                        top[j].rule_id = results_file[i].rule_id
                 /\ \A j \in DOMAIN top :
                        LET mine == {i \in K : results_file[i].rule_id = top[j].rule_id}
                            failed == {i \in mine : ~ results_file[i].passed}
                        IN  top[j].failure_rate.num * Cardinality(mine)
                              = Cardinality(failed) * 100 * top[j].failure_rate.den
                 /\ \A i, j \in DOMAIN top :
                        i < j => top[j].failure_rate.num * top[i].failure_rate.den
                                   <= top[i].failure_rate.num * top[j].failure_rate.den
                 /\ K = {} => Report = [overall_score |-> Zero, total_rules |-> 0,
                                        avg_pass_rate |-> Zero, total_executions |-> 0,
                                        top_issues |-> << >>]
    /\ returned.kind = "raise" => Kept(returned.args.days) # {}

C18_Witness ==
    /\ returned.kind = "summary"
    /\ Len(Report.top_issues) = 2
    /\ Kept(returned.args.days) = {1, 2}
    /\ results_file[1].rule_id = Report.top_issues[2].rule_id
    /\ Report.top_issues[1].failure_rate = Ratio(100, 1)
    /\ Report.top_issues[2].failure_rate = Zero

(* The daily pass rates of a trend report, oldest day first *)
DailyRates == [i \in DOMAIN Report.trend_data |-> Report.trend_data[i].pass_rate]

(* The mean of the points lo..hi of a series *)
MeanOf(rates, lo, hi) == RatioScale(RatioSum(SubSeq(rates, lo, hi)), 1, hi - lo + 1)

(* C19: over a series of n >= 2 daily pass rates, with recent the mean of  *)
(* the latest min(7, n) and older the mean of all the earlier ones, the    *)
(* direction is improving iff recent > older + 1, declining iff            *)
(* recent < older - 1 and stable otherwise; a series of equal rates is     *)
(* stable for every n >= 2, also when no earlier point exists.             *)
C19_TrendDirection ==
    (returned.kind = "trend" /\ Len(Report.trend_data) >= 2)
      => LET rates == DailyRates
             n == Len(rates)
             direction == Report.trend_direction
         IN  /\ n > TrendWindow
                   => LET recent == MeanOf(rates, n - TrendWindow + 1, n)
                          older == MeanOf(rates, 1, n - TrendWindow)
                          up == recent.num * older.den
                                  > (older.num + older.den) * recent.den
                          down == recent.num * older.den
                                    < (older.num - older.den) * recent.den
                      IN  /\ direction = "improving" <=> up
                          /\ direction = "declining" <=> down
                          /\ direction = "stable" <=> ~ up /\ ~ down
             /\ (\A i \in DOMAIN rates : rates[i] = rates[1]) => direction = "stable"

(* The entries of the rule of a trend report in its window, and their days *)
KeptOfRule ==
    {i \in Kept(returned.args.days) :
        results_file[i].rule_id = returned.args.rule_id}

KeptDays == {results_file[i].timestamp \div TicksPerDay : i \in KeptOfRule}

(* C20: a trend report over entries of one calendar day only has direction *)
(* insufficient_data; with no entry of the rule in the window it has an    *)
(* empty trend_data, average_pass_rate 0.0 and direction stable; neither   *)
(* call raises.                                                            *)
C20_FewDays ==
    /\ returned.kind = "trend"
          => /\ Cardinality(KeptDays) = 1
                   => /\ Report.trend_direction = "insufficient_data"
                      /\ Len(Report.trend_data) = 1
                      /\ Report.trend_data[1].executions = Cardinality(KeptOfRule)
             /\ KeptOfRule = {}
                   => Report = [rule_id |-> returned.args.rule_id,
                                trend_data |-> << >>, average_pass_rate |-> Zero,
                                trend_direction |-> "stable"]
    /\ (returned.kind = "raise" /\ returned.args.rule_id # Null)
          => Cardinality(KeptDays) >= 2

C20_Witness ==
    /\ returned.kind = "trend"
    /\ Cardinality(KeptOfRule) = 2
    /\ Cardinality(KeptDays) = 1
    /\ results_file[1].timestamp # results_file[2].timestamp
    /\ Report.trend_direction = "insufficient_data"

----------------------------------------------------------------------------
(* The keys the SQL of each rule type reads from the parameters without a  *)
(* default                                                                 *)
RequiredKeys(rule_type) ==
    CASE rule_type = "value_range" -> {"min_value", "max_value"}
      [] rule_type = "value_template" -> {"pattern"}
      [] rule_type = "statistical_comparison" ->
            {"operation", "compare_table", "compare_column"}
      [] rule_type = "cross_table_comparison" -> {"compare_table", "compare_column"}
      [] OTHER -> {}

(* C21: create_rule stores no rule whose parameters lack a key its type    *)
(* requires, and no execution is the first to find a parameter missing     *)
C21_RequiredParametersAtCreation ==
    /\ \A id \in DOMAIN rules :
          RequiredKeys(rules[id].rule_type) \subseteq DOMAIN rules[id].config.parameters
    /\ \A r \in RuleIds : ex[r].result.error # "KeyError"

(* The rules in the store whose value_range has min_value >= max_value *)
InvertedRange ==
    {id \in DOMAIN rules :
        "min_value must be less than max_value" \in validate_rule_configuration(rules[id])}

(* C22: a value_range rule with min_value >= max_value is a configuration  *)
(* error found before compilation: its execution issues no query and its   *)
(* outcome reports the error                                               *)
C22_InvertedRangeRejected ==
    \A r \in InvertedRange :
        /\ ex[r].pc \notin {"count", "validate", "stamp"}
        /\ ex[r].pc \in SealedPcs => ex[r].result.error # None

(* The five rule types of the rule model *)
FiveRuleTypes ==
    {"value_range", "value_template", "data_continuity",
     "statistical_comparison", "cross_table_comparison"}

(* C23: create_rule accepts a rule type exactly when it is one of the five, *)
(* and no stored rule fails to compile as an unsupported rule type          *)
C23_ExactlyFiveRuleTypes ==
    /\ \A id \in DOMAIN rules : rules[id].rule_type \in FiveRuleTypes
    /\ returned.kind = "raise" /\ returned.error = "Invalid rule type"
          => returned.args.rule_type \notin FiveRuleTypes
    /\ \A r \in RuleIds : ex[r].result.error # "Unsupported rule type"

(* The errors of a call that fails before any query is sent *)
BeforeDatabase == {"KeyError", "Unsupported rule type", "Connection not found"}

(* C24: with last_run unset at the start and one call of execute_rule, a   *)
(* sealed execution that reached the database has stamped last_run,        *)
(* whether its queries succeeded or the executor raised; one that failed   *)
(* before any query has not; and nothing is stamped before finish()        *)
C24_StampedIffReachedDatabase ==
    \A r \in RuleIds :
        /\ ex[r].pc \in SealedPcs =>
              (rules[r].last_run # Null <=> ex[r].result.error \notin BeforeDatabase)
        /\ ex[r].pc \in {"count", "validate", "stamp", "finish"} =>
              rules[r].last_run = Null

(* The two messages execute_rule raises with *)
TwoRaises == {"Rule not found", "No database connections configured"}

DialectPredicates(dialect) ==
    CASE dialect = "postgresql" -> {"!~"}
      [] dialect = "mysql" -> {"NOT REGEXP"}
      [] OTHER -> {"NOT LIKE", "NOT GLOB"}

(* C26: the validation query of a value_template rule that is sent to a    *)
(* connection uses the non-match predicate of that connection's dialect:   *)
(* !~ on postgresql, NOT REGEXP on mysql, LIKE or GLOB on sqlite only      *)
C26_DialectOfTheConnection ==
    \A r \in DOMAIN rules :
        rules[r].rule_type = "value_template" /\ ex[r].pc \in {"count", "validate"}
            => generate_validation_sql(rules[r]).sql.predicate
                   \in DialectPredicates(connection_type(ex[r].database))

(* The non-null values of the rows that come more than 1 after the         *)
(* greatest smaller value of the rows                                      *)
AfterAGap(rows) ==
    LET present == {rows[i] : i \in DOMAIN rows} \ {Null}
    IN  {v \in present :
            \E p \in present : /\ v - p > 1
                               /\ \A q \in present : ~ (p < q /\ q < v)}

NullRows(rows) == {i \in DOMAIN rows : rows[i] = Null}

(* C27: a data_continuity rule with check_type sequence_gaps fails exactly *)
(* the non-null values more than 1 above their predecessor in ascending    *)
(* order, each once; with any other or no check_type it fails the null     *)
(* rows; total_records is the number of all rows                           *)
C27_DataContinuity ==
    \A r \in Validated :
        rules[r].rule_type = "data_continuity" =>
            LET rows == db[rules[r].config.table]
                p == rules[r].config.parameters
                out == execute_query(db, generate_validation_sql(rules[r]).sql)
            IN  /\ ex[r].result.total_records = Len(rows)
                /\ ex[r].result.failed_records = Len(out)
                /\ IF "check_type" \in DOMAIN p /\ p.check_type = "sequence_gaps"
                   THEN out = Ascending(AfterAGap(rows))
                   ELSE Len(out) = Cardinality(NullRows(rows))
                        /\ \A i \in DOMAIN out : out[i] = Null

C27_Witness ==
    \E r \in Validated :
        /\ rules[r].rule_type = "data_continuity"
        /\ rules[r].config.parameters.check_type = "sequence_gaps"
        /\ ex[r].pc = "done"
        /\ ex[r].result.total_records = 2
        /\ ex[r].result.failed_records = 1

(* The history file with its entries stored in another order: every order  *)
(* of a short history; of a longer one the reverse, the first entry moved  *)
(* to the end, and the first two entries exchanged                         *)
Reordered(h) ==
    IF Len(h) <= MaxHistory + 1
    THEN {[i \in DOMAIN h |-> h[p[i]]] : p \in Permutations(DOMAIN h)}
    ELSE {[i \in DOMAIN h |-> h[Len(h) + 1 - i]],
          Append(Tail(h), Head(h)),
          <<h[2], h[1]>> \o SubSeq(h, 3, Len(h))}

(* The entries of the rule of a trend report in its window on a day *)
KeptOfDay(date) ==
    {i \in KeptOfRule : results_file[i].timestamp \div TicksPerDay = date}

(* The sums of the pass rates and of the total_records of the entries of   *)
(* the day among lo..hi                                                    *)
RECURSIVE DayRateSum(_, _, _)
DayRateSum(date, lo, hi) ==
    IF lo > hi THEN Zero
    ELSE IF lo = hi
    THEN (IF lo \in KeptOfDay(date) THEN results_file[lo].pass_rate ELSE Zero)
    ELSE LET mid == (lo + hi) \div 2
         IN  RatioAdd(DayRateSum(date, lo, mid), DayRateSum(date, mid + 1, hi))

RECURSIVE DayRecordSum(_, _, _)
DayRecordSum(date, lo, hi) ==
    IF lo > hi THEN 0
    ELSE IF lo = hi
    THEN (IF lo \in KeptOfDay(date) THEN results_file[lo].total_records ELSE 0)
    ELSE LET mid == (lo + hi) \div 2
         IN  DayRecordSum(date, lo, mid) + DayRecordSum(date, mid + 1, hi)

C29_CountsInRange ==
    \A result \in SealedResults :
        /\ result.total_records >= 0
        /\ result.passed_records >= 0
        /\ result.failed_records >= 0
        /\ result.failed_records <= result.total_records

(* The rules a batch for the table and the tag is to execute *)
ToExecute(table, tag) ==
    {id \in DOMAIN rules :
        /\ rules[id].status = "active"
        /\ IF table # None THEN rules[id].config.table = table
           ELSE tag # None => tag \in rules[id].tags}

(* C30: a batch executes the active rules on the table when a table is     *)
(* given, whatever the tag; the active rules with the tag when only a tag  *)
(* is given; all the active rules when neither is; no other rule is ever   *)
(* executed; and with an empty selection it returns the empty list with    *)
(* nothing executed and nothing appended to the history                    *)
C30_BatchSelection ==
    [][/\ \A table \in TableNames, tag \in Tags, database \in Databases,
             max_workers \in (1 .. MaxWorkers) \cup {DefaultMaxWorkers} :
             BatchStart(table, tag, database, max_workers) =>
                 IF ToExecute(table, tag) = {}
                 THEN /\ returned' = [kind |-> "list", error |-> None, results |-> << >>]
                      /\ main'.pc = "idle"
                      /\ ex' = ClearedExec
                      /\ results_file' = results_file
                 ELSE /\ main'.pc = "batch"
                      /\ {main'.rules[i] : i \in DOMAIN main'.rules} = ToExecute(table, tag)
                      /\ Len(main'.rules) = Cardinality(ToExecute(table, tag))
       /\ \A r \in RuleIds :
             ex'[r].pc # "idle" =>
                 /\ rules'[r].status = "active"
                 /\ \E i \in DOMAIN main'.rules : main'.rules[i] = r]_vars

(* A batch has returned the result of one rule and left an inactive rule   *)
(* alone                                                                   *)
C30_Witness ==
    /\ BatchReturned
    /\ Len(returned.results) = 1
    /\ \E r \in RuleIds : rules[r].status = "inactive" /\ ex[r].pc = "idle"
    /\ \E r \in RuleIds : rules[r].status = "active" /\ ex[r].pc = "done"

====
